---- MODULE Spec2Model ----
(***************************************************************************)
(* A model of foldersync/pattern.py: the Ant-glob engine (Matcher,         *)
(* Section, Pattern, PatternSet).                                          *)
(*                                                                         *)
(* A Python string is modelled as a sequence of one-character strings, so  *)
(* that replace, split, join and fnmatch are computed character by         *)
(* character.  os.path.normcase is the POSIX one (it returns its argument).*)
(***************************************************************************)
EXTENDS Integers, Sequences, FiniteSets

(* ---------------------------------------------------------------------- *)
(* Bounds of the model                                                     *)
(* ---------------------------------------------------------------------- *)
MaxGlobTokens == 4
MaxMatchTokens == 4
MaxDepth == 3
MaxTail == 2
MaxPatterns == 2

(* ---------------------------------------------------------------------- *)
(* String helpers                                                          *)
(* ---------------------------------------------------------------------- *)
StarStar == <<"*", "*">>
Star == <<"*">>
Dot == <<".">>
DotDot == <<".", ".">>
Empty == <<>>
NoPrevious == <<"<None>">>

Last(s) == s[Len(s)]
Front(s) == SubSeq(s, 1, Len(s) - 1)
Contains(s, c) == \E i \in 1..Len(s) : s[i] = c

RECURSIVE Join(_, _)
Join(parts, sep) ==
    IF parts = <<>> THEN <<>>
    ELSE IF Len(parts) = 1 THEN parts[1]
    ELSE parts[1] \o sep \o Join(Tail(parts), sep)

normcase(s) == s

(* str.replace('\\', '/') *)
ReplaceBackslash(s) == [i \in 1..Len(s) |-> IF s[i] = "\\" THEN "/" ELSE s[i]]

(* str.replace('//', '/'): one left-to-right pass over non-overlapping      *)
(* occurrences.                                                             *)
RECURSIVE ReplaceDoubleSlash(_)
ReplaceDoubleSlash(s) ==
    IF Len(s) < 2 THEN s
    ELSE IF s[1] = "/" /\ s[2] = "/"
         THEN <<"/">> \o ReplaceDoubleSlash(SubSeq(s, 3, Len(s)))
         ELSE <<s[1]>> \o ReplaceDoubleSlash(Tail(s))

(* str.split('/') *)
RECURSIVE Split(_)
Split(s) ==
    IF ~Contains(s, "/") THEN <<s>>
    ELSE LET i == CHOOSE k \in 1..Len(s) :
                      s[k] = "/" /\ \A j \in 1..(k - 1) : s[j] /= "/"
         IN <<SubSeq(s, 1, i - 1)>> \o Split(SubSeq(s, i + 1, Len(s)))

(* fnmatch.fnmatch(string, pattern) for patterns without '[' *)
RECURSIVE fnmatch(_, _)
fnmatch(string, pat) ==
    IF pat = <<>> THEN string = <<>>
    ELSE IF pat[1] = "*"
         THEN fnmatch(string, Tail(pat))
              \/ (string /= <<>> /\ fnmatch(Tail(string), pat))
    ELSE IF pat[1] = "?"
         THEN string /= <<>> /\ fnmatch(Tail(string), Tail(pat))
    ELSE string /= <<>> /\ string[1] = pat[1]
         /\ fnmatch(Tail(string), Tail(pat))

(* ---------------------------------------------------------------------- *)
(* Matcher                                                                 *)
(* ---------------------------------------------------------------------- *)
MatcherCreate(pattern) ==
    IF Contains(pattern, "?") \/ Contains(pattern, "*")
    THEN [kind |-> "FNMatcher", pattern |-> normcase(pattern)]
    ELSE [kind |-> "ConstantMatcher", pattern |-> normcase(pattern)]

MatcherMatch(matcher, string) ==
    IF matcher.kind = "FNMatcher"
    THEN fnmatch(string, matcher.pattern)
    ELSE matcher.pattern = normcase(string)

(* ---------------------------------------------------------------------- *)
(* MatchType                                                               *)
(* ---------------------------------------------------------------------- *)
BIT_MATCH == 1
BIT_ALL_SUBDIRECTORIES == 2
BIT_NO_SUBDIRECTORIES == 4

NO_MATCH == 0
MATCH == 1
MATCH_ALL_SUBDIRECTORIES == 3
MATCH_BUT_NO_SUBDIRECTORIES == 5
NO_MATCH_NO_SUBDIRECTORIES == 4

(* v & bit, for a single-bit mask *)
BitAnd(v, bit) == IF (v \div bit) % 2 = 1 THEN bit ELSE 0
(* v | bit, for a single-bit mask *)
BitOr(v, bit) == IF (v \div bit) % 2 = 1 THEN v ELSE v + bit

(* ---------------------------------------------------------------------- *)
(* Section                                                                 *)
(* ---------------------------------------------------------------------- *)
SectionInit(elements) ==
    [elements |-> [i \in 1..Len(elements) |-> MatcherCreate(elements[i])],
     bound_start |-> FALSE,
     bound_end |-> FALSE,
     length |-> Len(elements),
     str |-> Join(elements, <<"/">>)]

(* range(start, end) as a sequence *)
Range(start, end) ==
    IF end > start THEN [i \in 1..(end - start) |-> start + i - 1] ELSE <<>>

(* the inner loop of _match_iter_generic; index is 0-based *)
MatchesAt(section, path_elements, index) ==
    \A k \in 1..section.length :
        MatcherMatch(section.elements[k], path_elements[index + k])

match_iter_generic(section, path_elements, start_at) ==
    LET length == Len(path_elements)
        end == IF section.bound_start THEN 1
               ELSE length - section.length + 1
        start == IF section.bound_end THEN length - section.length
                 ELSE start_at
    IN IF start > end \/ start < start_at
          \/ end > length - section.length + 1
       THEN <<>>
       ELSE LET hits == SelectSeq(Range(start, end),
                            LAMBDA index :
                                MatchesAt(section, path_elements, index))
            IN [i \in 1..Len(hits) |-> hits[i] + section.length]

(* match_iter_single without the return on start < start_at *)
match_iter_single_NoStartCheck(section, path_elements, start_at) ==
    LET length == Len(path_elements)
        start == IF section.bound_end THEN length - 1 ELSE start_at
        end == IF section.bound_start THEN 1 ELSE length
    IN IF length = 0 THEN <<>>
       ELSE IF ~section.bound_start /\ start > end THEN <<>>
       ELSE LET hits == SelectSeq(Range(start, end),
                            LAMBDA index :
                                MatcherMatch(section.elements[1],
                                             path_elements[index + 1]))
            IN [i \in 1..Len(hits) |-> hits[i] + 1]

match_iter_single(section, path_elements, start_at) ==
    LET length == Len(path_elements)
        start == IF section.bound_end THEN length - 1 ELSE start_at
        end == IF section.bound_start THEN 1 ELSE length
    IN IF length = 0 THEN <<>>
       ELSE IF section.bound_end /\ start < start_at THEN <<>>
       ELSE IF ~section.bound_start /\ start > end THEN <<>>
       ELSE LET hits == SelectSeq(Range(start, end),
                            LAMBDA index :
                                MatcherMatch(section.elements[1],
                                             path_elements[index + 1]))
            IN [i \in 1..Len(hits) |-> hits[i] + 1]

(* match_iter yielding the end indices in descending order *)
match_iter_Descending(section, path_elements, start_at) ==
    LET ends == IF section.length = 1
                THEN match_iter_single(section, path_elements, start_at)
                ELSE match_iter_generic(section, path_elements, start_at)
    IN [i \in 1..Len(ends) |-> ends[Len(ends) + 1 - i]]

match_iter(section, path_elements, start_at) ==
    IF section.length = 1
    THEN match_iter_single(section, path_elements, start_at)
    ELSE match_iter_generic(section, path_elements, start_at)

(* ---------------------------------------------------------------------- *)
(* Pattern: compilation                                                    *)
(* ---------------------------------------------------------------------- *)
(* GlobSplit with a split that returns no element for the empty string *)
GlobSplit_NoEmpty(glob) ==
    IF glob = <<>> THEN <<>>
    ELSE Split(ReplaceDoubleSlash(ReplaceBackslash(glob)))

(* glob.replace('\\', '/').replace('//', '/').split('/') *)
GlobSplit(glob) == Split(ReplaceDoubleSlash(ReplaceBackslash(glob)))

(* the for loop of _simplify: raises on '..', drops '.', drops a '**' that  *)
(* follows a kept '**'                                                      *)
RECURSIVE SimplifyLoop(_, _, _, _)
SimplifyLoop(elements, i, simplified, previous) ==
    IF i > Len(elements) THEN [err |-> "none", simplified |-> simplified]
    ELSE LET element == elements[i]
         IN IF element = DotDot
            THEN [err |-> "PatternError", simplified |-> <<>>]
            ELSE IF element = Dot
            THEN SimplifyLoop(elements, i + 1, simplified, previous)
            ELSE IF element = StarStar /\ previous = StarStar
            THEN SimplifyLoop(elements, i + 1, simplified, previous)
            ELSE SimplifyLoop(elements, i + 1,
                              Append(simplified, normcase(element)), element)

(* simplified[-1] == "" is the trailing-slash shorthand for "**" *)
TrailingSlash(simplified) ==
    IF Last(simplified) = Empty
    THEN [simplified EXCEPT ![Len(simplified)] = StarStar]
    ELSE simplified

(* the pattern starts with "**" or with the first real element of the glob *)
LeadingSlash(simplified) ==
    IF simplified[1] = Empty THEN Tail(simplified)
    ELSE IF simplified[1] /= StarStar THEN <<StarStar>> \o simplified
    ELSE simplified

simplify(elements) ==
    LET loop == SimplifyLoop(elements, 1, <<>>, NoPrevious)
    IN IF loop.err /= "none" THEN loop
       ELSE IF loop.simplified = <<>>
       THEN [err |-> "IndexError", simplified |-> <<>>]
       ELSE [err |-> "none",
             simplified |-> LeadingSlash(TrailingSlash(loop.simplified))]

(* the fragment loop of Pattern.__init__: runs of elements between "**" *)
RECURSIVE Fragments(_, _, _, _)
Fragments(elements, i, fragment, acc) ==
    IF i > Len(elements)
    THEN IF fragment /= <<>> THEN Append(acc, fragment) ELSE acc
    ELSE IF elements[i] = StarStar
    THEN Fragments(elements, i + 1, <<>>,
                   IF fragment /= <<>> THEN Append(acc, fragment) ELSE acc)
    ELSE Fragments(elements, i + 1, Append(fragment, elements[i]), acc)

(* BoundStartOf looking for the empty element of a leading slash *)
BoundStartOf_LeadingEmpty(elements) == elements[1] = Empty

BoundStartOf(elements) == elements[1] /= StarStar

BoundEndOf(elements, bound_start) ==
    IF elements /= <<>> THEN Last(elements) /= StarStar ELSE bound_start

PatternInit(elements) ==
    LET bound_start == BoundStartOf(elements)
        has_file == Last(elements) /= StarStar
        file_pattern == IF has_file THEN normcase(Last(elements)) ELSE Star
        dirs == IF has_file THEN Front(elements) ELSE elements
        bound_end == BoundEndOf(dirs, bound_start)
        frags == Fragments(dirs, 1, <<>>, <<>>)
        n == Len(frags)
    IN [bound_start |-> bound_start,
        bound_end |-> bound_end,
        file_pattern |-> file_pattern,
        sections |-> [i \in 1..n |->
            [SectionInit(frags[i]) EXCEPT
                !.bound_start = (i = 1 /\ bound_start),
                !.bound_end = (i = n /\ bound_end)]]]

(* PatternCreate without the expansion of a trailing "**" *)
PatternCreate_Single(glob) ==
    LET r == simplify(GlobSplit(glob))
    IN IF r.err /= "none" THEN [kind |-> r.err, patterns |-> <<>>]
       ELSE [kind |-> "Pattern", patterns |-> <<PatternInit(r.simplified)>>]

(* Pattern.create: a Pattern, a PatternSet of two Patterns, or an error *)
PatternCreate(glob) ==
    LET r == simplify(GlobSplit(glob))
        elements == r.simplified
    IN IF r.err /= "none" THEN [kind |-> r.err, patterns |-> <<>>]
       ELSE IF Len(elements) > 1 /\ Last(elements) = StarStar
       THEN [kind |-> "PatternSet",
             patterns |-> <<PatternInit(elements),
                            PatternInit(Front(elements))>>]
       ELSE [kind |-> "Pattern", patterns |-> <<PatternInit(elements)>>]

(* Pattern._to_string *)
to_string(p) ==
    LET n == Len(p.sections)
        start == IF n > 0
                 THEN (IF p.bound_start THEN <<"/">> ELSE <<"*", "*", "/">>)
                 ELSE <<>>
        sections == IF n > 0
                    THEN Join([i \in 1..n |-> p.sections[i].str],
                              <<"/", "*", "*", "/">>)
                    ELSE <<>>
        end == IF n > 0
               THEN (IF p.bound_end THEN <<>> ELSE <<"/", "*", "*">>)
               ELSE (IF p.bound_end THEN <<>> ELSE <<"*", "*">>)
    IN start \o sections \o end \o <<"/">> \o p.file_pattern

(* ---------------------------------------------------------------------- *)
(* Pattern: directory and file matching                                    *)
(* ---------------------------------------------------------------------- *)
(* Terminal reporting all subdirectories for a pattern bound at its end *)
Terminal_BoundEndAll(p) ==
    IF Len(p.sections) = 1 /\ p.bound_start /\ p.bound_end
    THEN MATCH_BUT_NO_SUBDIRECTORIES
    ELSE MATCH_ALL_SUBDIRECTORIES

(* lines 532-543: all sections consumed *)
Terminal(p) ==
    IF Len(p.sections) = 1 /\ p.bound_start /\ p.bound_end
    THEN MATCH_BUT_NO_SUBDIRECTORIES
    ELSE IF p.bound_end THEN MATCH
    ELSE MATCH_ALL_SUBDIRECTORIES

(* AnchoredFailure asking for more room than the section needs *)
AnchoredFailure_StrictRoom(section, path_elements) ==
    IF Len(path_elements) > Len(section.elements)
    THEN NO_MATCH_NO_SUBDIRECTORIES
    ELSE IF section.length > Len(path_elements) /\ Len(path_elements) > 0
            /\ ~MatcherMatch(section.elements[Len(path_elements)],
                             Last(path_elements))
    THEN NO_MATCH_NO_SUBDIRECTORIES
    ELSE NO_MATCH

(* AnchoredFailure without the check of the partial prefix *)
AnchoredFailure_NoPrefixCheck(section, path_elements) ==
    NO_MATCH_NO_SUBDIRECTORIES

(* lines 514-527: the anchored first section yielded nothing *)
AnchoredFailure(section, path_elements) ==
    IF Len(path_elements) >= Len(section.elements)
    THEN NO_MATCH_NO_SUBDIRECTORIES
    ELSE IF section.length > Len(path_elements) /\ Len(path_elements) > 0
            /\ ~MatcherMatch(section.elements[Len(path_elements)],
                             Last(path_elements))
    THEN NO_MATCH_NO_SUBDIRECTORIES
    ELSE NO_MATCH

(* line 505: "if match | MatchType.MATCH" *)
ReturnCheck(match) == BitOr(match, MATCH) /= 0

RECURSIVE match_recurse(_, _, _, _, _)
RECURSIVE EndsLoop(_, _, _, _, _)
(* the for loop of lines 502-506: "returned" tells whether a return fired, *)
(* any_match whether the section yielded at all                            *)
EndsLoop(p, sections, path_elements, ends, i) ==
    IF i > Len(ends)
    THEN [returned |-> FALSE, match |-> NO_MATCH, any_match |-> Len(ends) > 0]
    ELSE LET match == match_recurse(p, FALSE, Tail(sections),
                                    path_elements, ends[i])
         IN IF ReturnCheck(match)
            THEN [returned |-> TRUE, match |-> match, any_match |-> TRUE]
            ELSE EndsLoop(p, sections, path_elements, ends, i + 1)

match_recurse(p, is_start, sections, path_elements, location) ==
    IF sections /= <<>>
    THEN LET section == sections[1]
             loop == EndsLoop(p, sections, path_elements,
                              match_iter(section, path_elements, location), 1)
         IN IF loop.returned THEN loop.match
            ELSE IF is_start /\ p.bound_start /\ ~loop.any_match
            THEN AnchoredFailure(section, path_elements)
            ELSE NO_MATCH
    ELSE Terminal(p)

(* match_directory whose root-only case forgets to look at the directory *)
match_directory_RootAlways(p, path_elements) ==
    IF p.sections /= <<>>
    THEN match_recurse(p, TRUE, p.sections, path_elements, 0)
    ELSE IF p.bound_start THEN MATCH_BUT_NO_SUBDIRECTORIES
    ELSE MATCH_ALL_SUBDIRECTORIES

match_directory(p, path_elements) ==
    IF p.sections /= <<>>
    THEN match_recurse(p, TRUE, p.sections, path_elements, 0)
    ELSE IF p.bound_start
    THEN (IF Len(path_elements) = 0 THEN MATCH_BUT_NO_SUBDIRECTORIES
          ELSE NO_MATCH_NO_SUBDIRECTORIES)
    ELSE MATCH_ALL_SUBDIRECTORIES

all_files(p) == p.file_pattern = Star

(* self.file_filter, applied to a set of names *)
file_filter(p, files) ==
    IF p.file_pattern = Star THEN files
    ELSE IF Contains(p.file_pattern, "*") \/ Contains(p.file_pattern, "?")
    THEN {f \in files : fnmatch(f, p.file_pattern)}
    ELSE {f \in files : normcase(f) = p.file_pattern}

(* PatternMatchFiles that leaves the matching names in unmatched *)
PatternMatchFiles_KeepUnmatched(p, matched, unmatched) ==
    [matched |-> matched \cup file_filter(p, unmatched),
     unmatched |-> unmatched]

(* Pattern.match_files: the new values of the sets matched and unmatched *)
PatternMatchFiles(p, matched, unmatched) ==
    LET this_match == file_filter(p, unmatched)
    IN [matched |-> matched \cup this_match,
        unmatched |-> unmatched \ this_match]

(* Pattern.match_file, for a non-empty list of elements *)
PatternMatchFile(p, elements) ==
    IF BitAnd(match_directory(p, Front(elements)), BIT_MATCH) /= 0
    THEN Cardinality(file_filter(p, {Last(elements)})) > 0
    ELSE FALSE

(* PatternSet.match_file over the members, in list order *)
RECURSIVE MatchFileLoop(_, _, _)
MatchFileLoop(pats, i, elements) ==
    IF i > Len(pats) THEN FALSE
    ELSE IF PatternMatchFile(pats[i], elements) THEN TRUE
    ELSE MatchFileLoop(pats, i + 1, elements)

(* ---------------------------------------------------------------------- *)
(* State                                                                   *)
(* ---------------------------------------------------------------------- *)
VARIABLES
    pc,               \* which call was made last
    glob,             \* the argument of Pattern.create
    created,          \* what Pattern.create returned or raised
    text,             \* _to_string of each created Pattern
    recreated,        \* Pattern.create of each text
    path_elements,    \* the argument of match_directory
    verdicts,         \* match_directory of each created Pattern
    file_elements,    \* the argument of match_file
    file_result,      \* what match_file returned
    patterns,         \* PatternSet.patterns
    cached_all_files, \* PatternSet._all_files: "True", "False" or "None"
    returned,         \* what the last PatternSet.all_files() returned
    it_pc,            \* the running iteration over PatternSet.iter()
    snapshot,         \* the list copied by PatternSet.iter()
    it_pos,           \* how many Patterns the iteration has yielded
    visited,          \* the Patterns the loop body has seen, in order
    members_at_start, \* PatternSet.patterns when the iteration started
    matched,          \* the caller's set matched
    unmatched,        \* the caller's set unmatched
    in_matched,       \* matched as passed to match_files
    in_unmatched      \* unmatched as passed to match_files

compileVars == <<glob, created, text, recreated>>
matchVars == <<path_elements, verdicts, file_elements, file_result>>
cacheVars == <<patterns, cached_all_files, returned>>
iterVars == <<it_pc, snapshot, it_pos, visited, members_at_start,
              matched, unmatched, in_matched, in_unmatched>>
vars == <<pc, compileVars, matchVars, cacheVars, iterVars>>

None == "None"

(* sequences over S of length lo..hi *)
SeqsOf(S, lo, hi) == UNION {[1..k -> S] : k \in lo..hi}

Src == <<"s", "r", "c">>
X == <<"x">>

(* the components a glob is written with *)
CompileTokens == {Empty, Dot, DotDot, StarStar, X, <<"s", "*">>}
MatchTokens == {Src, X, <<"s", "*">>, StarStar, Dot}
Separators == {"/", "\\"}

(* the directory and file names of the tree that is walked *)
Names == {Src, X}
Directories == SeqsOf(Names, 0, MaxDepth)
Tails == SeqsOf(Names, 1, MaxTail)

InitCompileIdle ==
    /\ created = [kind |-> None, patterns |-> <<>>]
    /\ text = <<>>
    /\ recreated = <<>>

InitMatchIdle ==
    /\ path_elements = <<>>
    /\ verdicts = <<>>
    /\ file_elements = <<>>
    /\ file_result = FALSE

InitSet ==
    /\ patterns = <<>>
    /\ cached_all_files = "False"
    /\ returned = None

InitIterIdle ==
    /\ it_pc = "idle"
    /\ snapshot = <<>>
    /\ it_pos = 0
    /\ visited = <<>>
    /\ members_at_start = <<>>
    /\ matched = {}
    /\ unmatched = {}
    /\ in_matched = {}
    /\ in_unmatched = {}

(* ---------------------------------------------------------------------- *)
(* Compilation and serialization                                           *)
(* ---------------------------------------------------------------------- *)
Create ==
    /\ pc = "glob"
    /\ created' = PatternCreate(glob)
    /\ pc' = "created"
    /\ UNCHANGED <<glob, text, recreated, matchVars, cacheVars, iterVars>>

Serialize ==
    /\ pc = "created"
    /\ created.kind \in {"Pattern", "PatternSet"}
    /\ text' = [i \in 1..Len(created.patterns) |->
                    to_string(created.patterns[i])]
    /\ pc' = "serialized"
    /\ UNCHANGED <<glob, created, recreated, matchVars, cacheVars, iterVars>>

Recreate ==
    /\ pc = "serialized"
    /\ recreated' = [i \in 1..Len(text) |-> PatternCreate(text[i])]
    /\ pc' = "recreated"
    /\ UNCHANGED <<glob, created, text, matchVars, cacheVars, iterVars>>

InitCompile ==
    /\ pc = "glob"
    /\ \E tokens \in SeqsOf(CompileTokens, 1, MaxGlobTokens),
          sep \in Separators :
            glob = Join(tokens, <<sep>>)
    /\ InitCompileIdle /\ InitMatchIdle /\ InitSet /\ InitIterIdle

NextCompile == Create \/ Serialize \/ Recreate

SpecCompile == InitCompile /\ [][NextCompile]_vars

(* ---------------------------------------------------------------------- *)
(* Matching directories and files with a created Pattern or PatternSet     *)
(* ---------------------------------------------------------------------- *)
MatchDirectory ==
    /\ pc = "created"
    /\ created.kind \in {"Pattern", "PatternSet"}
    /\ \E d \in Directories :
        /\ path_elements' = d
        /\ verdicts' = [i \in 1..Len(created.patterns) |->
                            match_directory(created.patterns[i], d)]
    /\ pc' = "directory"
    /\ UNCHANGED <<compileVars, file_elements, file_result,
                   cacheVars, iterVars>>

(* match_file of the created object for a file of the matched directory *)
MatchFile ==
    /\ pc = "directory"
    /\ \E name \in Names :
        /\ file_elements' = Append(path_elements, name)
        /\ file_result' =
            IF created.kind = "PatternSet"
            THEN MatchFileLoop(created.patterns, 1,
                               Append(path_elements, name))
            ELSE PatternMatchFile(created.patterns[1],
                                  Append(path_elements, name))
    /\ pc' = "file"
    /\ UNCHANGED <<compileVars, path_elements, verdicts,
                   cacheVars, iterVars>>

InitMatch ==
    /\ pc = "glob"
    /\ \E tokens \in SeqsOf(MatchTokens, 1, MaxMatchTokens),
          anchored \in BOOLEAN :
            glob = (IF anchored THEN <<"/">> ELSE <<>>)
                   \o Join(tokens, <<"/">>)
    /\ InitCompileIdle /\ InitMatchIdle /\ InitSet /\ InitIterIdle

NextMatch == Create \/ MatchDirectory \/ MatchFile

SpecMatch == InitMatch /\ [][NextMatch]_vars

(* ---------------------------------------------------------------------- *)
(* PatternSet                                                              *)
(* ---------------------------------------------------------------------- *)
PyBool(b) == IF b THEN "True" ELSE "False"

(* the PatternSet that Pattern.create returns for x/**, and the Pattern of *)
(* s*: two Patterns that match all files or a constant, one with a glob    *)
ExpandedSet == PatternCreate(<<"x", "/", "*", "*">>).patterns
WildPattern == PatternCreate(<<"s", "*">>).patterns[1]
Pool == {ExpandedSet[1], ExpandedSet[2], WildPattern}
FileElements == {<<X>>, <<Src>>}

(* _compute_all_files *)
ComputeAllFiles(pats) == PyBool(\E i \in 1..Len(pats) : all_files(pats[i]))

(* PatternSetAppend computing the cache from an unknown one too *)
PatternSetAppend_AlwaysKnown(pats, cache, pattern) ==
    [patterns |-> Append(pats, pattern),
     cache |-> PyBool(cache = "True" \/ all_files(pattern))]

(* PatternSet.append: the new list and the new cache *)
PatternSetAppend(pats, cache, pattern) ==
    [patterns |-> Append(pats, pattern),
     cache |-> IF cache /= None
               THEN PyBool(cache = "True" \/ all_files(pattern))
               ELSE None]

(* PatternSet.extend with a list, or with the list of another PatternSet *)
PatternSetExtend(pats, cache, list) ==
    [patterns |-> pats \o list, cache |-> None]

(* list.remove: the first occurrence goes *)
ListRemove(pats, pattern) ==
    LET i == CHOOSE k \in 1..Len(pats) :
                 pats[k] = pattern /\ \A j \in 1..(k - 1) : pats[j] /= pattern
    IN SubSeq(pats, 1, i - 1) \o SubSeq(pats, i + 1, Len(pats))

(* PatternSetRemove leaving the cache as it was *)
PatternSetRemove_KeepCache(pats, cache, pattern) ==
    [patterns |-> ListRemove(pats, pattern), cache |-> cache]

(* PatternSet.remove of a member *)
PatternSetRemove(pats, cache, pattern) ==
    [patterns |-> ListRemove(pats, pattern), cache |-> None]

(* PatternSet.all_files: the new cache, which is also the value returned *)
PatternSetAllFiles(pats, cache) ==
    IF cache = None THEN ComputeAllFiles(pats) ELSE cache

(* PatternSet.iter: list(self.patterns), taken when the list is not empty *)
IterCopy(pats) == IF pats /= <<>> THEN pats ELSE <<>>

(* IterSource walking the list of the set itself *)
IterSource_Live(copy, live) == live

(* the list that "for pattern in patterns" of PatternSet.iter walks *)
IterSource(copy, live) == copy

(* the mutations reset the record of the last all_files(); pc keeps the    *)
(* name of the method the client called last                               *)
Mutate(call, r) ==
    /\ patterns' = r.patterns
    /\ cached_all_files' = r.cache
    /\ returned' = None
    /\ pc' = call
    /\ UNCHANGED <<compileVars, matchVars, iterVars>>

SetAppend ==
    /\ Len(patterns) < MaxPatterns
    /\ \E pattern \in Pool :
        Mutate("append", PatternSetAppend(patterns, cached_all_files, pattern))

(* extend with a single Pattern is append *)
SetExtendPattern ==
    /\ Len(patterns) < MaxPatterns
    /\ \E pattern \in Pool :
        Mutate("extend", PatternSetAppend(patterns, cached_all_files, pattern))

SetExtendList ==
    \E list \in SeqsOf(Pool, 0, MaxPatterns) :
        /\ Len(patterns) + Len(list) <= MaxPatterns
        /\ Mutate("extend", PatternSetExtend(patterns, cached_all_files, list))

(* extend with the PatternSet that Pattern.create returned *)
SetExtendPatternSet ==
    /\ Len(patterns) + Len(ExpandedSet) <= MaxPatterns
    /\ Mutate("extend", PatternSetExtend(patterns, cached_all_files, ExpandedSet))

(* remove of a Pattern that is not a member raises ValueError and changes  *)
(* nothing                                                                 *)
SetRemove ==
    \E pattern \in Pool :
        /\ \E k \in 1..Len(patterns) : patterns[k] = pattern
        /\ Mutate("remove", PatternSetRemove(patterns, cached_all_files, pattern))

SetAllFiles ==
    /\ cached_all_files' = PatternSetAllFiles(patterns, cached_all_files)
    /\ returned' = PatternSetAllFiles(patterns, cached_all_files)
    /\ pc' = "all_files"
    /\ UNCHANGED <<compileVars, matchVars, patterns, iterVars>>

(* PatternSet.match_files(matched, unmatched): the call, then one Pattern  *)
(* of self.iter() per step.  The variables of an earlier call are cleared. *)
MatchFilesStart ==
    /\ it_pc \notin {"match_files", "match_file"}
    /\ \E m \in SUBSET Names, u \in SUBSET Names :
        /\ m \cap u = {}
        /\ matched' = m /\ in_matched' = m
        /\ unmatched' = u /\ in_unmatched' = u
    /\ snapshot' = IterCopy(patterns)
    /\ members_at_start' = patterns
    /\ it_pos' = 0
    /\ visited' = <<>>
    /\ it_pc' = "match_files"
    /\ file_elements' = <<>>
    /\ file_result' = FALSE
    /\ UNCHANGED <<pc, compileVars, path_elements, verdicts, cacheVars>>

MatchFilesStep ==
    /\ it_pc = "match_files"
    /\ it_pos < Len(IterSource(snapshot, patterns))
    /\ LET pattern == IterSource(snapshot, patterns)[it_pos + 1]
           r == PatternMatchFiles(pattern, matched, unmatched)
       IN /\ matched' = r.matched
          /\ unmatched' = r.unmatched
          /\ visited' = Append(visited, pattern)
          /\ it_pc' = IF r.unmatched = {} THEN "files_break"
                      ELSE "match_files"
    /\ it_pos' = it_pos + 1
    /\ UNCHANGED <<pc, compileVars, matchVars, cacheVars, snapshot,
                   members_at_start, in_matched, in_unmatched>>

(* PatternSet.match_file(elements), one Pattern of self.iter() per step *)
MatchFileStart ==
    /\ it_pc \notin {"match_files", "match_file"}
    /\ \E elements \in FileElements : file_elements' = elements
    /\ snapshot' = IterCopy(patterns)
    /\ members_at_start' = patterns
    /\ it_pos' = 0
    /\ visited' = <<>>
    /\ it_pc' = "match_file"
    /\ file_result' = FALSE
    /\ matched' = {} /\ in_matched' = {}
    /\ unmatched' = {} /\ in_unmatched' = {}
    /\ UNCHANGED <<pc, compileVars, path_elements, verdicts, cacheVars>>

MatchFileStep ==
    /\ it_pc = "match_file"
    /\ it_pos < Len(IterSource(snapshot, patterns))
    /\ LET pattern == IterSource(snapshot, patterns)[it_pos + 1]
       IN /\ visited' = Append(visited, pattern)
          /\ IF PatternMatchFile(pattern, file_elements)
             THEN it_pc' = "file_true" /\ file_result' = TRUE
             ELSE it_pc' = "match_file" /\ UNCHANGED file_result
    /\ it_pos' = it_pos + 1
    /\ UNCHANGED <<pc, compileVars, path_elements, verdicts, file_elements,
                   cacheVars, snapshot, members_at_start,
                   matched, unmatched, in_matched, in_unmatched>>

(* the generator is exhausted: the loop ends *)
IterExhausted ==
    /\ it_pc \in {"match_files", "match_file"}
    /\ it_pos >= Len(IterSource(snapshot, patterns))
    /\ IF it_pc = "match_files"
       THEN it_pc' = "files_exhausted" /\ UNCHANGED file_result
       ELSE it_pc' = "file_false" /\ file_result' = FALSE
    /\ UNCHANGED <<pc, compileVars, path_elements, verdicts, file_elements,
                   cacheVars, snapshot, it_pos, visited, members_at_start,
                   matched, unmatched, in_matched, in_unmatched>>

InitPatternSet ==
    /\ pc = "set"
    /\ glob = <<>>
    /\ InitCompileIdle /\ InitMatchIdle /\ InitSet /\ InitIterIdle

NextPatternSet ==
    \/ SetAppend \/ SetExtendPattern \/ SetExtendList \/ SetExtendPatternSet
    \/ SetRemove \/ SetAllFiles
    \/ MatchFilesStart \/ MatchFilesStep
    \/ MatchFileStart \/ MatchFileStep
    \/ IterExhausted

SpecSet == InitPatternSet /\ [][NextPatternSet]_vars

(* ---------------------------------------------------------------------- *)
(* Properties of match_directory                                           *)
(* ---------------------------------------------------------------------- *)
Members == 1..Len(created.patterns)

(* C1: prune soundness.  When match_directory(d) has the NO_SUBDIRECTORIES *)
(* bit, match_directory(d + tail) has no MATCH bit for any non-empty tail. *)
PruneSoundness ==
    pc = "directory" =>
        \A i \in Members :
            BitAnd(verdicts[i], BIT_NO_SUBDIRECTORIES) /= 0 =>
                \A tail \in Tails :
                    BitAnd(match_directory(created.patterns[i],
                                           path_elements \o tail),
                           BIT_MATCH) = 0

(* a directory that matched an anchored one-section pattern was pruned,    *)
(* and a shallower directory was pruned on a diverging prefix              *)
PruneWitness ==
    /\ pc = "directory"
    /\ path_elements /= <<>>
    /\ \E i \in Members :
        /\ Len(created.patterns[i].sections) = 1
        /\ created.patterns[i].sections[1].length = 2
        /\ Len(path_elements) = 1
        /\ verdicts[i] = NO_MATCH_NO_SUBDIRECTORIES

(* C2: descendant completeness.  When match_directory(d) has the           *)
(* ALL_SUBDIRECTORIES bit, match_directory(d + tail) has the MATCH bit for *)
(* every tail.                                                             *)
DescendantCompleteness ==
    pc = "directory" =>
        \A i \in Members :
            BitAnd(verdicts[i], BIT_ALL_SUBDIRECTORIES) /= 0 =>
                \A tail \in Tails \cup {<<>>} :
                    BitAnd(match_directory(created.patterns[i],
                                           path_elements \o tail),
                           BIT_MATCH) /= 0

(* a pattern with two sections matched a directory with all descendants *)
DescendantWitness ==
    /\ pc = "directory"
    /\ \E i \in Members :
        /\ Len(created.patterns[i].sections) = 2
        /\ verdicts[i] = MATCH_ALL_SUBDIRECTORIES
        /\ Len(path_elements) >= 2

(* ---------------------------------------------------------------------- *)
(* Properties of the trailing "**" expansion                               *)
(* ---------------------------------------------------------------------- *)
(* the components of the glob as written, and the part X of X followed by  *)
(* a final "**"                                                            *)
Written == Split(glob)
Anchored == Len(Written) > 1 /\ Written[1] = Empty
Body == IF Anchored THEN Tail(Written) ELSE Written
TrailingForm ==
    /\ Len(Body) >= 2
    /\ Last(Body) = StarStar
    /\ \A i \in 1..(Len(Body) - 1) : Body[i] \notin {StarStar, Empty}
AnchorX == SelectSeq(Front(Body), LAMBDA e : e /= Dot)

(* the path consists of a run that X names, after any prefix when the glob *)
(* is not anchored, and of anything below it                               *)
NamesX(path, from) ==
    /\ from + Len(AnchorX) <= Len(path)
    /\ \A j \in 1..Len(AnchorX) :
        MatcherMatch(MatcherCreate(AnchorX[j]), path[from + j])
AtOrBelowX(path) ==
    \E from \in 0..Len(path) : (Anchored => from = 0) /\ NamesX(path, from)

(* C3, as stated: every glob X/** with X one or more components other than *)
(* "**" compiles to a PatternSet of two Patterns whose match_file accepts  *)
(* the path naming X and every path below X.                               *)
TrailingExpansionAnyComponent ==
    (pc \in {"created", "directory", "file"} /\ TrailingForm) =>
        /\ created.kind = "PatternSet"
        /\ Len(created.patterns) = 2
        /\ (pc = "file" /\ AtOrBelowX(file_elements)) => file_result = TRUE

(* C3, amended: the same for X with no ".." component and at least one     *)
(* component other than ".".                                               *)
TrailingExpansion ==
    (pc \in {"created", "directory", "file"} /\ TrailingForm
        /\ AnchorX /= <<>> /\ \A j \in 1..Len(AnchorX) : AnchorX[j] /= DotDot)
    =>
        /\ created.kind = "PatternSet"
        /\ Len(created.patterns) = 2
        /\ (pc = "file" /\ AtOrBelowX(file_elements)) => file_result = TRUE

(* match_file was asked about a file one level below an anchor of two      *)
(* components                                                              *)
TrailingExpansionWitness ==
    /\ pc = "file"
    /\ TrailingForm
    /\ Len(AnchorX) = 2
    /\ NamesX(file_elements, 0)
    /\ Len(file_elements) = Len(AnchorX) + 1
    /\ file_result = TRUE

SrcGlob == <<"/", "s", "r", "c", "/", "*", "*">>

(* C4, as stated: for /src/** and the directory ["src"] the Pattern with   *)
(* the trailing "**" returns MATCH, the second Pattern returns             *)
(* MATCH_BUT_NO_SUBDIRECTORIES, and the file x is selected.                *)
ScenarioTwoAsStated ==
    (pc \in {"directory", "file"} /\ glob = SrcGlob
        /\ path_elements = <<Src>>)
    =>
        /\ created.kind = "PatternSet"
        /\ Len(created.patterns) = 2
        /\ verdicts[1] = MATCH
        /\ verdicts[2] = MATCH_BUT_NO_SUBDIRECTORIES
        /\ (pc = "file" /\ file_elements = <<Src, X>>) => file_result = TRUE

(* C4, amended: for /src/** and the directory ["src"] the Pattern with the *)
(* trailing "**" returns MATCH_ALL_SUBDIRECTORIES, the second Pattern (the *)
(* file pattern /src) returns NO_MATCH_NO_SUBDIRECTORIES, and the file x   *)
(* is selected; the second Pattern returns MATCH_BUT_NO_SUBDIRECTORIES for *)
(* the root directory only.                                                *)
ScenarioTwo ==
    (pc \in {"directory", "file"} /\ glob = SrcGlob) =>
        /\ created.kind = "PatternSet"
        /\ Len(created.patterns) = 2
        /\ path_elements = <<Src>> =>
            /\ verdicts[1] = MATCH_ALL_SUBDIRECTORIES
            /\ verdicts[2] = NO_MATCH_NO_SUBDIRECTORIES
            /\ (pc = "file" /\ file_elements = <<Src, X>>)
                    => file_result = TRUE
        /\ (verdicts[2] = MATCH_BUT_NO_SUBDIRECTORIES) = (path_elements = <<>>)

ScenarioTwoWitness ==
    /\ pc = "file"
    /\ glob = SrcGlob
    /\ path_elements = <<Src>>
    /\ file_elements = <<Src, X>>
    /\ file_result = TRUE

(* ---------------------------------------------------------------------- *)
(* Properties of compilation                                               *)
(* ---------------------------------------------------------------------- *)
SamePattern(p, q) ==
    /\ p.bound_start = q.bound_start
    /\ p.bound_end = q.bound_end
    /\ p.file_pattern = q.file_pattern
    /\ Len(p.sections) = Len(q.sections)
    /\ \A i \in 1..Len(p.sections) :
        p.sections[i].elements = q.sections[i].elements

(* C5: round trip.  When a glob compiles to a Pattern p, compiling the     *)
(* string form of p gives a Pattern equal to p.                            *)
RoundTrip ==
    (pc = "recreated" /\ created.kind = "Pattern") =>
        /\ recreated[1].kind = "Pattern"
        /\ SamePattern(recreated[1].patterns[1], created.patterns[1])

(* the elements of the glob after the separators are normalised, without   *)
(* the "." elements                                                        *)
Kept == SelectSeq(GlobSplit(glob), LAMBDA e : e /= Dot)

(* C6, as stated: bound_start is true iff the glob began with a path       *)
(* separator.                                                              *)
BoundStartIffLeadingSeparator ==
    (pc = "created" /\ created.kind \in {"Pattern", "PatternSet"}) =>
        \A i \in Members :
            created.patterns[i].bound_start
                = (glob /= <<>> /\ glob[1] \in Separators)

(* C6, amended: bound_start is true iff the kept elements start with the   *)
(* empty element of a leading separator and the element after it is        *)
(* neither "**" nor the final empty element of a trailing separator.       *)
BoundStartIffAnchoredElement ==
    (pc = "created" /\ created.kind \in {"Pattern", "PatternSet"}) =>
        \A i \in Members :
            created.patterns[i].bound_start
                = (/\ Len(Kept) >= 2
                   /\ Kept[1] = Empty
                   /\ Kept[2] /= StarStar
                   /\ ~(Len(Kept) = 2 /\ Kept[2] = Empty))

(* a glob that starts with a separator compiled to an unbound Pattern *)
BoundStartWitness ==
    /\ pc = "created"
    /\ created.kind = "Pattern"
    /\ Len(glob) > 3
    /\ glob[1] = "/"
    /\ ~created.patterns[1].bound_start
    /\ created.patterns[1].file_pattern = X

(* C7, as stated: compiling the empty glob raises PatternError, as a glob  *)
(* with a ".." element does.                                               *)
EmptyGlobRaises ==
    (pc = "created" /\ (glob = <<>> \/ \E i \in 1..Len(GlobSplit(glob)) :
                                            GlobSplit(glob)[i] = DotDot))
    => created.kind = "PatternError"

(* C7, amended: compiling the empty glob raises nothing and returns the    *)
(* Pattern of "**" (no sections, unbound, file pattern "*"); a glob with a  *)
(* ".." element raises PatternError.                                       *)
EmptyGlobCompiles ==
    pc = "created" =>
        /\ glob = <<>> =>
            created = [kind |-> "Pattern",
                       patterns |-> <<[bound_start |-> FALSE,
                                       bound_end |-> FALSE,
                                       file_pattern |-> Star,
                                       sections |-> <<>>]>>]
        /\ (\E i \in 1..Len(GlobSplit(glob)) : GlobSplit(glob)[i] = DotDot)
            => created.kind = "PatternError"

EmptyGlobWitness ==
    /\ pc = "created"
    /\ glob = <<>>
    /\ created.kind = "Pattern"

(* ---------------------------------------------------------------------- *)
(* Properties of PatternSet                                                *)
(* ---------------------------------------------------------------------- *)
AnyAllFiles == \E i \in 1..Len(patterns) : all_files(patterns[i])

(* C8: cache coherence.  A cached value other than None is the OR of       *)
(* all_files() over the current members, and all_files() returns that OR.  *)
CacheCoherence ==
    /\ cached_all_files /= None => cached_all_files = PyBool(AnyAllFiles)
    /\ returned /= None => returned = PyBool(AnyAllFiles)

(* all_files() answered for a set of two members, the first of which       *)
(* matches all files                                                       *)
CacheWitness ==
    /\ returned = "True"
    /\ Len(patterns) = 2
    /\ all_files(patterns[1])
    /\ ~all_files(patterns[2])

(* the names that the file filters of the members admit from the original  *)
(* set unmatched                                                           *)
Admitted ==
    UNION {file_filter(members_at_start[i], in_unmatched) :
               i \in 1..Len(members_at_start)}

(* C9: set monotonicity.  When match_files ends, by exhaustion or by the   *)
(* early exit, matched has gained exactly the names admitted by some       *)
(* member, unmatched has lost them, and the two sets are disjoint with the *)
(* same union as before.                                                   *)
SetMonotonicity ==
    it_pc \in {"files_break", "files_exhausted"} =>
        /\ matched = in_matched \cup Admitted
        /\ unmatched = in_unmatched \ Admitted
        /\ matched \cap unmatched = {}
        /\ matched \cup unmatched = in_matched \cup in_unmatched

(* the early exit was taken before every member was visited, after two     *)
(* names had moved                                                         *)
SetMonotonicityWitness ==
    /\ it_pc = "files_break"
    /\ Len(visited) < Len(members_at_start)
    /\ Cardinality(in_unmatched) = 2
    /\ in_matched = {}
    /\ Cardinality(matched) = 2

(* the members before position n that match the file *)
MatchedBefore(n) ==
    {k \in 1..(n - 1) : PatternMatchFile(members_at_start[k], file_elements)}

(* C10, as stated: match_files and match_file visit exactly the Patterns   *)
(* that were members of the set when the iteration started, each once and  *)
(* in insertion order, whatever append, extend and remove did between the  *)
(* steps.                                                                  *)
SnapshotVisitsAllMembers ==
    it_pc \in {"files_break", "files_exhausted", "file_true", "file_false"}
        => visited = members_at_start

(* C10, amended: the Patterns visited are, each once and in insertion      *)
(* order, a prefix of the members the set had when the iteration started,  *)
(* whatever append, extend and remove did between the steps: all of them   *)
(* when the loop ends by exhaustion, the members up to the one that        *)
(* emptied unmatched when match_files breaks, and the members up to the    *)
(* first one that matches the file when match_file returns True.           *)
SnapshotIteration ==
    it_pc /= "idle" =>
        /\ Len(visited) <= Len(members_at_start)
        /\ visited = SubSeq(members_at_start, 1, Len(visited))
        /\ it_pc \in {"files_exhausted", "file_false"}
                => visited = members_at_start
        /\ it_pc = "files_break"
                => visited /= <<>> /\ unmatched = {}
        /\ it_pc = "file_true"
                => /\ visited /= <<>>
                   /\ PatternMatchFile(Last(visited), file_elements)
                   /\ MatchedBefore(Len(visited)) = {}
        /\ it_pc \in {"match_file", "file_false"}
                => MatchedBefore(Len(visited) + 1) = {}

(* the loop has visited one of two members, and a remove between the steps *)
(* has taken the member it visits next out of the set                      *)
SnapshotWitness ==
    /\ it_pc \in {"match_files", "match_file"}
    /\ pc = "remove"
    /\ Len(members_at_start) = 2
    /\ Len(visited) = 1
    /\ patterns = <<members_at_start[1]>>
    /\ members_at_start[2] /= members_at_start[1]

(* ---------------------------------------------------------------------- *)
(* Properties of the recursive search                                      *)
(* ---------------------------------------------------------------------- *)
(* the verdicts that a depth-first search over every yielded end index of  *)
(* every section reaches when all sections are consumed                    *)
RECURSIVE ExhaustiveVerdicts(_, _, _, _)
ExhaustiveVerdicts(p, sections, path, location) ==
    IF sections = <<>> THEN {Terminal(p)}
    ELSE LET ends == match_iter(sections[1], path, location)
         IN UNION {ExhaustiveVerdicts(p, Tail(sections), path, ends[k]) :
                       k \in 1..Len(ends)}

MatchingVerdicts(p, path) ==
    {v \in ExhaustiveVerdicts(p, p.sections, path, 0) :
         BitAnd(v, BIT_MATCH) /= 0}

(* C11: first match wins loses no match.  For a Pattern with sections,     *)
(* match_directory has the MATCH bit iff the exhaustive search finds a     *)
(* verdict with the MATCH bit, and then it returns that verdict.           *)
FirstMatchWins ==
    pc = "directory" =>
        \A i \in Members :
            created.patterns[i].sections /= <<>> =>
                LET found == MatchingVerdicts(created.patterns[i],
                                              path_elements)
                IN /\ (BitAnd(verdicts[i], BIT_MATCH) /= 0) = (found /= {})
                   /\ found /= {} => found = {verdicts[i]}

(* the first of two sections yielded several end indices, and the search   *)
(* matched on the first                                                    *)
FirstMatchWitness ==
    /\ pc = "directory"
    /\ \E i \in Members :
        /\ Len(created.patterns[i].sections) = 2
        /\ created.patterns[i].bound_end
        /\ Len(match_iter(created.patterns[i].sections[1],
                          path_elements, 0)) >= 2
        /\ verdicts[i] = MATCH

(* an anchored Pattern with sections for which the search finds no match   *)
(* although the directory has room for the first section                   *)
AnchoredMiss(p, path) ==
    /\ p.bound_start
    /\ p.sections /= <<>>
    /\ MatchingVerdicts(p, path) = {}
    /\ Len(path) >= p.sections[1].length

(* C12, as stated: an anchored Pattern whose search finds no match on a    *)
(* directory with at least as many components as the first section has     *)
(* matchers returns NO_MATCH_NO_SUBDIRECTORIES.                            *)
AnchoredFailureAsStated ==
    pc = "directory" =>
        \A i \in Members :
            AnchoredMiss(created.patterns[i], path_elements)
                => verdicts[i] = NO_MATCH_NO_SUBDIRECTORIES

(* C12, amended: it returns NO_MATCH_NO_SUBDIRECTORIES when the first      *)
(* section yields no end index, and NO_MATCH when the first section        *)
(* matches and a later section fails.                                      *)
AnchoredFailureVerdict ==
    pc = "directory" =>
        \A i \in Members :
            AnchoredMiss(created.patterns[i], path_elements) =>
                verdicts[i] =
                    IF match_iter(created.patterns[i].sections[1],
                                  path_elements, 0) = <<>>
                    THEN NO_MATCH_NO_SUBDIRECTORIES
                    ELSE NO_MATCH

(* the anchored first section matched, the second did not, and the verdict *)
(* leaves the subdirectories open                                          *)
AnchoredFailureWitness ==
    /\ pc = "directory"
    /\ \E i \in Members :
        /\ AnchoredMiss(created.patterns[i], path_elements)
        /\ Len(created.patterns[i].sections) = 2
        /\ match_iter(created.patterns[i].sections[1],
                      path_elements, 0) /= <<>>
        /\ verdicts[i] = NO_MATCH

(* the token list Pattern._simplify returns for the glob *)
Normalized == simplify(GlobSplit(glob)).simplified

NoAdjacentStarStar(elements) ==
    \A k \in 1..(Len(elements) - 1) :
        ~(elements[k] = StarStar /\ elements[k + 1] = StarStar)

(* C13: for every glob that compiles, the normalized token list has no two *)
(* adjacent `**` elements and no `.` element, and a glob with a `..`       *)
(* element is rejected with PatternError.                                  *)
InvariantB ==
    pc = "created" =>
        /\ Contains(GlobSplit(glob), DotDot) => created.kind = "PatternError"
        /\ created.kind \in {"Pattern", "PatternSet"} =>
            /\ NoAdjacentStarStar(Normalized)
            /\ ~Contains(Normalized, Dot)

(* the parts of Invariant B other than the adjacency of `**` *)
InvariantBDots ==
    pc = "created" =>
        /\ Contains(GlobSplit(glob), DotDot) => created.kind = "PatternError"
        /\ created.kind \in {"Pattern", "PatternSet"} =>
            ~Contains(Normalized, Dot)

(* adjacency of `**` when the glob does not end in a separator after `**`  *)
InvariantBNoTrailing ==
    (pc = "created" /\ created.kind \in {"Pattern", "PatternSet"}) =>
        LET kept == SelectSeq(GlobSplit(glob), LAMBDA e : e /= Dot)
        IN ~(Len(kept) > 1 /\ Last(kept) = Empty
                /\ kept[Len(kept) - 1] = StarStar)
            => NoAdjacentStarStar(Normalized)

(* append(p), called by the client or through extend(p) with a Pattern *)
AppendCall == SetAppend \/ SetExtendPattern

(* C14, as stated: append(p) with p.all_files() true leaves the cache in   *)
(* the known-true state whether it was known-false or unknown before.      *)
AppendMakesKnownTrue ==
    [][(AppendCall /\ all_files(Last(patterns')))
            => cached_all_files' = "True"]_vars

(* C14, amended: append(p) with p.all_files() true leaves a known cache    *)
(* known-true and an unknown cache unknown; the all_files() that follows   *)
(* gives True in both cases.                                               *)
AppendCacheTransition ==
    [][(AppendCall /\ all_files(Last(patterns')))
            => /\ cached_all_files' = IF cached_all_files = None THEN None
                                      ELSE "True"
               /\ PatternSetAllFiles(patterns', cached_all_files') = "True"]_vars

(* append has added a Pattern that matches all files while the cache was   *)
(* unknown, and the cache is unknown still                                 *)
AppendCacheWitness ==
    /\ pc = "append"
    /\ all_files(Last(patterns))
    /\ cached_all_files = None

(* the sections of the compiled Patterns *)
CompiledSections ==
    UNION {{created.patterns[i].sections[k] :
                k \in DOMAIN created.patterns[i].sections} : i \in Members}

(* the sections of length 1, under every combination of the two flags *)
SingleSections ==
    {[sec EXCEPT !.bound_start = bs, !.bound_end = be] :
        sec \in {r \in CompiledSections : r.length = 1},
        bs \in BOOLEAN, be \in BOOLEAN}

(* C15: for every Section of length 1, every combination of its flags,     *)
(* every path and every start_at in 0..len(path), _match_iter_single       *)
(* yields the end indices of _match_iter_generic, in the same order.       *)
FastPathEquivalence ==
    pc = "directory" =>
        \A section \in SingleSections :
            \A start_at \in 0..Len(path_elements) :
                match_iter_single(section, path_elements, start_at)
                    = match_iter_generic(section, path_elements, start_at)

(* a section of length 1 bound to the end yields from a start_at above 0   *)
(* and yields nothing from a start_at past the last component              *)
FastPathWitness ==
    /\ pc = "directory"
    /\ Len(path_elements) >= 2
    /\ \E section \in SingleSections :
        /\ section.bound_end
        /\ ~section.bound_start
        /\ match_iter_single(section, path_elements,
                             Len(path_elements) - 1) /= <<>>
        /\ match_iter_single(section, path_elements,
                             Len(path_elements)) = <<>>

====
